---- MODULE Spec2Model ----
(***************************************************************************)
(* Model of doorstop/core/reference_finder.py: ReferenceFinder.find_ref    *)
(* and ReferenceFinder.find_file_reference.                                *)
(*                                                                         *)
(* Strings are sequences of one-character strings, so that filename        *)
(* equality, os.path.splitext, os.path.join, re.escape and the token regex *)
(* are computed character by character.  None is the empty option <<>>,    *)
(* a present value v is <<v>>.                                             *)
(***************************************************************************)
EXTENDS Integers, Sequences, FiniteSets, TLC

VARIABLES
    op,         \* the entry point called: "find_ref" or "find_file_reference"
    ref,        \* find_ref: ref;  find_file_reference: ref_path
    root,       \* find_file_reference: root (unused by find_ref)
    keyword,    \* find_file_reference: keyword, <<>> is None, <<k>> is k
    item_path,  \* item_path
    paths,      \* tree.vcs.paths: sequence of (path, filename, relpath)
    fs,         \* what linecache.getlines does for each tracked path
    skip_exts,  \* settings.SKIP_EXTS
    i,          \* position of the for loop over tree.vcs.paths
    pc,         \* "loop" while the call runs, "done" once it returned or raised
    result,     \* the outcome of the call
    fetched     \* history: the paths linecache.getlines was called with

vars == <<op, ref, root, keyword, item_path, paths, fs, skip_exts, i, pc,
          result, fetched>>

(***************************************************************************)
(* Bounds                                                                  *)
(***************************************************************************)
MaxFiles == 2
MaxLineLen == 3
MaxRefLen == 2

(***************************************************************************)
(* Characters                                                              *)
(***************************************************************************)
\* \w of the re module, on the characters the model uses.
WordChars == {"a", "b", "d", "r", "i", "t"}

IsWord(c) == c \in WordChars

\* The characters re.escape puts a backslash before (re._special_chars_map),
\* on the characters the model uses.
SpecialChars == {".", "-", "\\", "\n", " "}

(***************************************************************************)
(* os.path                                                                 *)
(***************************************************************************)
RECURSIVE LastIndexOf(_, _)
\* str.rfind(c) + 1: the 1-based position of the last c in s, 0 when absent.
LastIndexOf(s, c) ==
    IF s = <<>> THEN 0
    ELSE IF s[Len(s)] = c THEN Len(s)
    ELSE LastIndexOf(SubSeq(s, 1, Len(s) - 1), c)

\* os.path.splitext(filename)[-1] (genericpath._splitext): the text from the
\* last dot on, unless every character before that dot is a dot too.
SplitExt(filename) ==
    LET dot == LastIndexOf(filename, ".")
    IN  IF dot > 0 /\ \E k \in 1..(dot - 1) : filename[k] # "."
        THEN SubSeq(filename, dot, Len(filename))
        ELSE <<>>

\* os.path.join(a, b) of posixpath.
Join(a, b) ==
    IF b # <<>> /\ Head(b) = "/" THEN b
    ELSE IF a = <<>> \/ a[Len(a)] = "/" THEN a \o b
    ELSE a \o <<"/">> \o b

(***************************************************************************)
(* The token regex                                                         *)
(***************************************************************************)
RECURSIVE ReEscape(_)
\* re.escape(ref)
ReEscape(s) ==
    IF s = <<>> THEN <<>>
    ELSE (IF Head(s) \in SpecialChars THEN <<"\\", Head(s)>> ELSE <<Head(s)>>)
         \o ReEscape(Tail(s))

RECURSIVE Atoms(_)
\* re.compile on the escaped text: a backslash makes the next character a
\* literal, a bare dot is any character but a newline, the rest is literal.
Atoms(p) ==
    IF p = <<>> THEN <<>>
    ELSE IF Head(p) = "\\" /\ Len(p) >= 2
         THEN <<[any |-> FALSE, ch |-> p[2]]>> \o Atoms(SubSeq(p, 3, Len(p)))
    ELSE IF Head(p) = "."
         THEN <<[any |-> TRUE, ch |-> "."]>> \o Atoms(Tail(p))
    ELSE <<[any |-> FALSE, ch |-> Head(p)]>> \o Atoms(Tail(p))

AtomMatches(a, c) == IF a.any THEN c # "\n" ELSE c = a.ch

\* The compiled literal matches s from offset q (0-based) on.
MatchesAt(atoms, s, q) ==
    /\ q + Len(atoms) <= Len(s)
    /\ \A k \in 1..Len(atoms) : AtomMatches(atoms[k], s[q + k])

\* \b at offset p of s: exactly one of the characters around p is a word
\* character (outside the string counts as a non-word character).
WordBoundary(s, p) ==
    (p > 0 /\ IsWord(s[p])) # (p < Len(s) /\ IsWord(s[p + 1]))

\* The group (\b|\W) matches s from offset p to offset q.
EdgeGroup(s, p, q) ==
    \/ q = p /\ WordBoundary(s, p)
    \/ q = p + 1 /\ p < Len(s) /\ ~IsWord(s[p + 1])

\* regex.search(line) is a match, regex = re.compile(
\*     r"(\b|\W){}(\b|\W)".format(re.escape(text)))
RegexSearch(text, line) ==
    LET atoms == Atoms(ReEscape(text))
    IN  \E p \in 0..Len(line) : \E q \in {p, p + 1} :
            /\ EdgeGroup(line, p, q)
            /\ MatchesAt(atoms, line, q)
            /\ \E e \in {q + Len(atoms), q + Len(atoms) + 1} :
                   EdgeGroup(line, q + Len(atoms), e)

\* (a scan that keeps the last hit instead of returning on the first)
LastMatchingLine(text, lines) ==
    IF \E n \in 1..Len(lines) : RegexSearch(text, lines[n])
    THEN CHOOSE n \in 1..Len(lines) :
            /\ RegexSearch(text, lines[n])
            /\ \A m \in (n + 1)..Len(lines) : ~RegexSearch(text, lines[m])
    ELSE 0

\* The lineno of the first line the regex matches (enumerate(lines, start=1)
\* with a return on the first hit), 0 when the loop ends without a hit.
FirstMatchingLine(text, lines) ==
    IF \E n \in 1..Len(lines) : RegexSearch(text, lines[n])
    THEN CHOOSE n \in 1..Len(lines) :
            /\ RegexSearch(text, lines[n])
            /\ \A m \in 1..(n - 1) : ~RegexSearch(text, lines[m])
    ELSE 0

(***************************************************************************)
(* linecache                                                               *)
(***************************************************************************)
\* linecache.getlines(path): the exception it lets through ("" for none) and
\* the lines it returns, each ending with a newline.
GetLines(path) ==
    [exc   |-> fs[path].exc,
     lines |-> IF fs[path].exc = ""
               THEN [k \in 1..Len(fs[path].text) |-> fs[path].text[k] \o <<"\n">>]
               ELSE <<>>]

(***************************************************************************)
(* Results                                                                 *)
(***************************************************************************)
Pending == [kind |-> "pending", exc |-> "", relpath |-> <<>>, line |-> <<>>,
            arg |-> <<>>]

\* return relpath, line
Return(relpath, line) ==
    [kind |-> "return", exc |-> "", relpath |-> relpath, line |-> line,
     arg |-> <<>>]

\* raise exc, built from arg
Raise(exc, arg) ==
    [kind |-> "raise", exc |-> exc, relpath |-> <<>>, line |-> <<>>,
     arg |-> arg]

\* find_ref: msg = "external reference not found: {}".format(ref)
\*           raise DoorstopError(msg)
RefNotFound == Raise("DoorstopError", ref)

\* (the error built from the joined absolute path instead of ref_path)
FileRefNotFoundFullPath == Raise("DoorstopError", Join(root, ref))

\* find_file_reference: msg = "external reference not found: {}".format(ref_path)
\*                      raise DoorstopError(msg)
FileRefNotFound == Raise("DoorstopError", ref)

(***************************************************************************)
(* find_ref                                                                *)
(***************************************************************************)
\* (the listing walked from its end)
EntryFromEnd(k) == paths[Len(paths) + 1 - k]

\* for path, filename, relpath in tree.vcs.paths: the k-th entry visited
EntryAt(k) == paths[k]

\* The entry the for loop is at.
Entry == EntryAt(i)

\* (no exclusion of the item's own file)
NeverItemFile(path) == FALSE

\* if path == item_path: continue
IsItemFile(path) == path = item_path

\* (no check of the filename)
FilenameNeverRef(filename) == FALSE

\* if filename == ref: return relpath, None
FilenameIsRef(filename) == filename = ref

\* (no extension is skipped)
NeverSkippedExt(filename) == FALSE

\* if os.path.splitext(filename)[-1] in settings.SKIP_EXTS: continue
SkippedExt(filename) == SplitExt(filename) \in skip_exts

\* (only the decode failure is caught)
CatchesDecodeOnly(exc) == exc = "UnicodeDecodeError"

\* except UnicodeDecodeError: continue / except SyntaxError: continue
Catches(exc) == exc \in {"UnicodeDecodeError", "SyntaxError"}

\* The for loop of find_ref is at entry i of tree.vcs.paths.
FindRefAt == pc = "loop" /\ op = "find_ref" /\ i <= Len(paths)

\* Entry i gets as far as linecache.getlines(path).
FindRefReads ==
    /\ FindRefAt
    /\ ~IsItemFile(Entry.path)
    /\ ~FilenameIsRef(Entry.filename)
    /\ ~SkippedExt(Entry.filename)

FindRef_SkipItem ==
    /\ FindRefAt
    /\ IsItemFile(Entry.path)
    /\ i' = i + 1
    /\ UNCHANGED <<op, ref, root, keyword, item_path, paths, fs, skip_exts,
                   pc, result, fetched>>

FindRef_Filename ==
    /\ FindRefAt
    /\ ~IsItemFile(Entry.path)
    /\ FilenameIsRef(Entry.filename)
    /\ result' = Return(Entry.relpath, <<>>)
    /\ pc' = "done"
    /\ UNCHANGED <<op, ref, root, keyword, item_path, paths, fs, skip_exts,
                   i, fetched>>

FindRef_SkipExt ==
    /\ FindRefAt
    /\ ~IsItemFile(Entry.path)
    /\ ~FilenameIsRef(Entry.filename)
    /\ SkippedExt(Entry.filename)
    /\ i' = i + 1
    /\ UNCHANGED <<op, ref, root, keyword, item_path, paths, fs, skip_exts,
                   pc, result, fetched>>

\* linecache.getlines raises: a caught exception goes on with the next entry,
\* any other one leaves find_ref.
FindRef_GetLinesRaises ==
    /\ FindRefReads
    /\ GetLines(Entry.path).exc # ""
    /\ fetched' = fetched \cup {Entry.path}
    /\ IF Catches(GetLines(Entry.path).exc)
       THEN i' = i + 1 /\ UNCHANGED <<pc, result>>
       ELSE /\ result' = Raise(GetLines(Entry.path).exc, <<>>)
            /\ pc' = "done"
            /\ UNCHANGED i
    /\ UNCHANGED <<op, ref, root, keyword, item_path, paths, fs, skip_exts>>

\* if not lines: continue
FindRef_NoLines ==
    /\ FindRefReads
    /\ GetLines(Entry.path).exc = ""
    /\ GetLines(Entry.path).lines = <<>>
    /\ fetched' = fetched \cup {Entry.path}
    /\ i' = i + 1
    /\ UNCHANGED <<op, ref, root, keyword, item_path, paths, fs, skip_exts,
                   pc, result>>

\* for lineno, line in enumerate(lines, start=1):
\*     if regex.search(line): return relpath, lineno
FindRef_Found ==
    /\ FindRefReads
    /\ GetLines(Entry.path).exc = ""
    /\ GetLines(Entry.path).lines # <<>>
    /\ FirstMatchingLine(ref, GetLines(Entry.path).lines) # 0
    /\ fetched' = fetched \cup {Entry.path}
    /\ result' = Return(Entry.relpath,
                        <<FirstMatchingLine(ref, GetLines(Entry.path).lines)>>)
    /\ pc' = "done"
    /\ UNCHANGED <<op, ref, root, keyword, item_path, paths, fs, skip_exts, i>>

\* The scan of the lines ends without a hit: next entry.
FindRef_NoMatch ==
    /\ FindRefReads
    /\ GetLines(Entry.path).exc = ""
    /\ GetLines(Entry.path).lines # <<>>
    /\ FirstMatchingLine(ref, GetLines(Entry.path).lines) = 0
    /\ fetched' = fetched \cup {Entry.path}
    /\ i' = i + 1
    /\ UNCHANGED <<op, ref, root, keyword, item_path, paths, fs, skip_exts,
                   pc, result>>

\* The for loop is exhausted: raise DoorstopError(msg)
FindRef_Raise ==
    /\ pc = "loop" /\ op = "find_ref" /\ i > Len(paths)
    /\ result' = RefNotFound
    /\ pc' = "done"
    /\ UNCHANGED <<op, ref, root, keyword, item_path, paths, fs, skip_exts,
                   i, fetched>>

(***************************************************************************)
(* find_file_reference                                                     *)
(***************************************************************************)
\* ref_full_path = os.path.join(root, ref_path)
RefFullPath == Join(root, ref)

\* (every entry is taken for the referenced file)
AlwaysRefFullPath(path) == TRUE

\* if path == ref_full_path:
IsRefFullPath(path) == path = RefFullPath

\* (the keyword is searched for even when there is none)
KeywordNeverNone == FALSE

\* if keyword is None: return relpath, None
KeywordIsNone == keyword = <<>>

\* The for loop of find_file_reference is at entry i of tree.vcs.paths.
FileRefAt == pc = "loop" /\ op = "find_file_reference" /\ i <= Len(paths)

\* Entry i gets as far as linecache.getlines(path).
FileRefReads ==
    /\ FileRefAt
    /\ ~IsItemFile(Entry.path)
    /\ IsRefFullPath(Entry.path)
    /\ ~KeywordIsNone

\* The keyword the regex of find_file_reference is compiled from.  With
\* keyword None re.escape(None) fails: raise TypeError.
KeywordText == IF keyword = <<>> THEN <<>> ELSE keyword[1]

FileRef_SkipItem ==
    /\ FileRefAt
    /\ IsItemFile(Entry.path)
    /\ i' = i + 1
    /\ UNCHANGED <<op, ref, root, keyword, item_path, paths, fs, skip_exts,
                   pc, result, fetched>>

\* path == ref_full_path is false: next entry.
FileRef_OtherPath ==
    /\ FileRefAt
    /\ ~IsItemFile(Entry.path)
    /\ ~IsRefFullPath(Entry.path)
    /\ i' = i + 1
    /\ UNCHANGED <<op, ref, root, keyword, item_path, paths, fs, skip_exts,
                   pc, result, fetched>>

FileRef_ReturnPath ==
    /\ FileRefAt
    /\ ~IsItemFile(Entry.path)
    /\ IsRefFullPath(Entry.path)
    /\ KeywordIsNone
    /\ result' = Return(Entry.relpath, <<>>)
    /\ pc' = "done"
    /\ UNCHANGED <<op, ref, root, keyword, item_path, paths, fs, skip_exts,
                   i, fetched>>

FileRef_GetLinesRaises ==
    /\ FileRefReads
    /\ GetLines(Entry.path).exc # ""
    /\ fetched' = fetched \cup {Entry.path}
    /\ IF Catches(GetLines(Entry.path).exc)
       THEN i' = i + 1 /\ UNCHANGED <<pc, result>>
       ELSE /\ result' = Raise(GetLines(Entry.path).exc, <<>>)
            /\ pc' = "done"
            /\ UNCHANGED i
    /\ UNCHANGED <<op, ref, root, keyword, item_path, paths, fs, skip_exts>>

\* With a keyword of None that still gets here, re.escape(keyword) raises
\* TypeError.
FileRef_Found ==
    /\ FileRefReads
    /\ GetLines(Entry.path).exc = ""
    /\ keyword # <<>>
    /\ FirstMatchingLine(KeywordText, GetLines(Entry.path).lines) # 0
    /\ fetched' = fetched \cup {Entry.path}
    /\ result' = Return(Entry.relpath,
                        <<FirstMatchingLine(KeywordText,
                                            GetLines(Entry.path).lines)>>)
    /\ pc' = "done"
    /\ UNCHANGED <<op, ref, root, keyword, item_path, paths, fs, skip_exts, i>>

\* getlines never returns None (lines is None is false); a list without a
\* hit, the empty list included, ends the inner loop: next entry.
FileRef_NoMatch ==
    /\ FileRefReads
    /\ GetLines(Entry.path).exc = ""
    /\ fetched' = fetched \cup {Entry.path}
    /\ IF keyword = <<>>
       THEN /\ result' = Raise("TypeError", <<>>)
            /\ pc' = "done"
            /\ UNCHANGED i
       ELSE /\ FirstMatchingLine(KeywordText, GetLines(Entry.path).lines) = 0
            /\ i' = i + 1
            /\ UNCHANGED <<pc, result>>
    /\ UNCHANGED <<op, ref, root, keyword, item_path, paths, fs, skip_exts>>

\* The for loop is exhausted: raise DoorstopError(msg)
FileRef_Raise ==
    /\ pc = "loop" /\ op = "find_file_reference" /\ i > Len(paths)
    /\ result' = FileRefNotFound
    /\ pc' = "done"
    /\ UNCHANGED <<op, ref, root, keyword, item_path, paths, fs, skip_exts,
                   i, fetched>>

(***************************************************************************)
(* The calls                                                               *)
(***************************************************************************)
\* The files the tree tracks: (path, filename, relpath) as tree.vcs.paths
\* yields them, below the root /r.  Two of them share a filename, one has
\* the extension .b.
FileA  == [path     |-> <<"/", "r", "/", "a">>,
           filename |-> <<"a">>,
           relpath  |-> <<"a">>]

FileAB == [path     |-> <<"/", "r", "/", "a", ".", "b">>,
           filename |-> <<"a", ".", "b">>,
           relpath  |-> <<"a", ".", "b">>]

FileDA == [path     |-> <<"/", "r", "/", "d", "/", "a">>,
           filename |-> <<"a">>,
           relpath  |-> <<"d", "/", "a">>]

TrackedFiles == {FileA, FileAB, FileDA}

\* tree.vcs.paths: no path is listed twice.
TrackedSeqs ==
    UNION { {s \in [1..n -> TrackedFiles] :
                \A j, k \in 1..n : s[j] = s[k] => j = k} : n \in 0..MaxFiles }

\* What a tracked file holds: lines of text (without their newline), or
\* bytes linecache.getlines fails on.
Texts == { <<>>,
           << <<"a", "b">> >>,
           << <<"a", "b">>, <<"a", ".", "b">> >>,
           << <<"a", ".", "b">>, <<"a", ".", "b">> >> }

Contents == {[exc |-> "", text |-> t] : t \in Texts}
            \cup {[exc |-> e, text |-> <<>>] :
                     e \in {"UnicodeDecodeError", "SyntaxError"}}

\* item_path: a tracked file or the file of an item outside the listing.
ItemPaths == {FileA.path, FileAB.path, <<"/", "r", "/", "i">>}

SkipSets == { {}, {<<".", "b">>} }

\* find_ref(ref, tree, item_path)
Refs == { <<"a">>, <<"a", ".", "b">>, <<"b">> }

\* find_file_reference(ref_path, root, tree, item_path, keyword=None)
RefPaths == { <<"a">>, <<"a", ".", "b">>, <<"/", "r", "/", "d", "/", "a">> }

Roots == { <<"/", "r">>, <<"/", "r", "/">> }

Keywords == { <<>>, << <<"b">> >> }

Init ==
    /\ paths \in TrackedSeqs
    /\ fs \in [{paths[k].path : k \in 1..Len(paths)} -> Contents]
    /\ item_path \in ItemPaths
    /\ skip_exts \in SkipSets
    /\ \/ /\ op = "find_ref"
          /\ ref \in Refs
          /\ root = <<>>
          /\ keyword = <<>>
       \/ /\ op = "find_file_reference"
          /\ ref \in RefPaths
          /\ root \in Roots
          /\ keyword \in Keywords
    /\ i = 1
    /\ pc = "loop"
    /\ result = Pending
    /\ fetched = {}

Next ==
    \/ FindRef_SkipItem
    \/ FindRef_Filename
    \/ FindRef_SkipExt
    \/ FindRef_GetLinesRaises
    \/ FindRef_NoLines
    \/ FindRef_Found
    \/ FindRef_NoMatch
    \/ FindRef_Raise
    \/ FileRef_SkipItem
    \/ FileRef_OtherPath
    \/ FileRef_ReturnPath
    \/ FileRef_GetLinesRaises
    \/ FileRef_Found
    \/ FileRef_NoMatch
    \/ FileRef_Raise

Spec == Init /\ [][Next]_vars

(***************************************************************************)
(* The token regex on every short reference and line: find_file_reference  *)
(* with a keyword, on a tree of one file of one line.                      *)
(***************************************************************************)
Alphabet == {"a", "-", "."}

StringsUpTo(n) == UNION { [1..k -> Alphabet] : k \in 0..n }

FileT == [path     |-> <<"/", "r", "/", "t">>,
          filename |-> <<"t">>,
          relpath  |-> <<"t">>]

InitMatch ==
    /\ paths = <<FileT>>
    /\ \E line \in StringsUpTo(MaxLineLen) :
           fs = [p \in {FileT.path} |-> [exc |-> "", text |-> <<line>>]]
    /\ item_path = <<"/", "r", "/", "i">>
    /\ skip_exts = {}
    /\ op = "find_file_reference"
    /\ ref = <<"t">>
    /\ root = <<"/", "r">>
    /\ \E k \in StringsUpTo(MaxRefLen) \ {<<>>} : keyword = <<k>>
    /\ i = 1
    /\ pc = "loop"
    /\ result = Pending
    /\ fetched = {}

NextMatch ==
    \/ FileRef_Found
    \/ FileRef_NoMatch
    \/ FileRef_Raise

SpecMatch == InitMatch /\ [][NextMatch]_vars

(***************************************************************************)
(* Vocabulary of the properties, on positions of tree.vcs.paths            *)
(***************************************************************************)
Done == pc = "done"

Positions == 1..Len(paths)

\* Entry k is the entry whose absolute path is item_path.
IsOwn(k) == paths[k].path = item_path

\* The extension of entry k is in the skip set.
ExtSkipped(k) == SplitExt(paths[k].filename) \in skip_exts

\* The lines of entry k, as a reader gets them: none when the file does not
\* decode or parse.
LinesOf(k) ==
    IF fs[paths[k].path].exc = ""
    THEN [n \in 1..Len(fs[paths[k].path].text) |->
              fs[paths[k].path].text[n] \o <<"\n">>]
    ELSE <<>>

\* Line n of entry k matches the token regex of text.
TokenOnLine(text, k, n) == RegexSearch(text, LinesOf(k)[n])

HasTokenLine(text, k) == \E n \in 1..Len(LinesOf(k)) : TokenOnLine(text, k, n)

\* Line n is the first line of entry k that matches.
FirstTokenLine(text, k, n) ==
    /\ n \in 1..Len(LinesOf(k))
    /\ TokenOnLine(text, k, n)
    /\ \A m \in 1..(n - 1) : ~TokenOnLine(text, k, m)

\* Entry k is a match of find_ref: by its filename, or by its content when
\* it is neither skipped nor unreadable.
IsMatch(k) ==
    /\ ~IsOwn(k)
    /\ \/ paths[k].filename = ref
       \/ ~ExtSkipped(k) /\ HasTokenLine(ref, k)

\* The position of the entry a returned relative path belongs to.
PositionOf(relpath) == CHOOSE k \in Positions : paths[k].relpath = relpath

(***************************************************************************)
(* C1                                                                      *)
(***************************************************************************)
\* C1 as stated, for the first such file F and the result alone: whenever
\* find_ref ends and F is the first tracked file, other than the item's own,
\* that has the reference as its filename, the result is (F's relative
\* path, None).
C1_FilenameAlwaysWins ==
    (Done /\ op = "find_ref") =>
        \A k \in Positions :
            (/\ paths[k].filename = ref /\ ~IsOwn(k)
             /\ \A m \in 1..(k - 1) : IsOwn(m) \/ paths[m].filename # ref) =>
                result = Return(paths[k].relpath, <<>>)

\* C1 amended: when no entry before F is a match (by filename or by
\* content), find_ref returns (F's relative path, None) and fetches the
\* lines neither of F nor of any entry after F.
C1_FirstFilenameWins ==
    (Done /\ op = "find_ref") =>
        \A k \in Positions :
            (/\ paths[k].filename = ref
             /\ ~IsOwn(k)
             /\ \A m \in 1..(k - 1) : ~IsMatch(m)) =>
                /\ result = Return(paths[k].relpath, <<>>)
                /\ \A m \in k..Len(paths) : paths[m].path \notin fetched

\* An earlier file was scanned without a hit, then the filename matched.
C1_Witness ==
    /\ Done /\ op = "find_ref"
    /\ Len(paths) = 2
    /\ paths[2].filename = ref
    /\ paths[1].path \in fetched
    /\ result = Return(paths[2].relpath, <<>>)

(***************************************************************************)
(* C2                                                                      *)
(***************************************************************************)
\* C2 as stated: when the keyword matches line n of a tracked text file
\* whose extension is not skipped, matches no earlier line of it and no line
\* of an earlier entry, find_ref returns (its relative path, n).
C2_TokenLineFound ==
    (Done /\ op = "find_ref") =>
        \A k \in Positions : \A n \in 1..Len(LinesOf(k)) :
            (/\ ~ExtSkipped(k)
             /\ FirstTokenLine(ref, k, n)
             /\ \A m \in 1..(k - 1) : ~HasTokenLine(ref, m)) =>
                result = Return(paths[k].relpath, <<n>>)

\* C2 amended: the same, for a file that is not the item's own and is not
\* named like the keyword, when no earlier entry other than the item's own
\* is named like the keyword.
C2_TokenLineFoundElsewhere ==
    (Done /\ op = "find_ref") =>
        \A k \in Positions : \A n \in 1..Len(LinesOf(k)) :
            (/\ ~ExtSkipped(k)
             /\ FirstTokenLine(ref, k, n)
             /\ \A m \in 1..(k - 1) : ~HasTokenLine(ref, m)
             /\ ~IsOwn(k)
             /\ paths[k].filename # ref
             /\ \A m \in 1..(k - 1) : ~IsOwn(m) => paths[m].filename # ref) =>
                result = Return(paths[k].relpath, <<n>>)

\* The keyword was found on line 2 of the second entry.
C2_Witness ==
    /\ Done /\ op = "find_ref"
    /\ Len(paths) = 2
    /\ paths[1].path \in fetched
    /\ FirstTokenLine(ref, 2, 2)
    /\ result = Return(paths[2].relpath, <<2>>)

(***************************************************************************)
(* C3                                                                      *)
(***************************************************************************)
\* text occurs in line with a non-word character or an end of the line
\* right before it and right after it.
TokenOccurs(text, line) ==
    \E p \in 0..(Len(line) - Len(text)) :
        /\ SubSeq(line, p + 1, p + Len(text)) = text
        /\ (p = 0 \/ ~IsWord(line[p]))
        /\ (p + Len(text) = Len(line) \/ ~IsWord(line[p + Len(text) + 1]))

\* C3: the search of a one-line file for a keyword finds it if and only if
\* the keyword occurs in the line between non-word characters or line
\* boundaries.
C3_TokenBoundary ==
    (Done /\ op = "find_file_reference" /\ keyword # <<>>) =>
        ((result.kind = "return")
            <=> TokenOccurs(keyword[1], fs[paths[1].path].text[1]))

(***************************************************************************)
(* C4                                                                      *)
(***************************************************************************)
\* C4: in both entry points no returned result carries the relative path of
\* the entry whose absolute path is item_path.
C4_OwnFileNeverReturned ==
    (Done /\ result.kind = "return") =>
        \A k \in Positions : IsOwn(k) => result.relpath # paths[k].relpath

\* The item's own file came first and would have matched (by filename, by
\* content, or as the referenced path); another entry was returned.
C4_Witness ==
    /\ Done /\ result.kind = "return"
    /\ Len(paths) = 2 /\ IsOwn(1)
    /\ \/ op = "find_ref" /\ paths[1].filename = ref
       \/ op = "find_ref" /\ HasTokenLine(ref, 1)
    /\ result.relpath = paths[2].relpath

(***************************************************************************)
(* C5                                                                      *)
(***************************************************************************)
\* C5: find_ref never fetches the lines of a file whose extension is in the
\* skip set and returns such a file only by filename equality, with no line
\* number.
C5_SkippedExtNeverRead ==
    (op = "find_ref") =>
        \A k \in Positions :
            ExtSkipped(k) =>
                /\ paths[k].path \notin fetched
                /\ (result.kind = "return"
                    /\ result.relpath = paths[k].relpath) =>
                       (result.line = <<>> /\ paths[k].filename = ref)

\* A skipped file holding the keyword was passed over and nothing was found.
C5_Witness ==
    /\ Done /\ op = "find_ref"
    /\ \E k \in Positions :
           /\ ExtSkipped(k) /\ ~IsOwn(k) /\ paths[k].filename # ref
           /\ HasTokenLine(ref, k)
    /\ result.kind = "raise"

(***************************************************************************)
(* C6                                                                      *)
(***************************************************************************)
\* Entry k was read and gave nothing to scan: getlines failed or returned
\* no lines.
Unreadable(k) ==
    /\ ~IsOwn(k) /\ paths[k].filename # ref /\ ~ExtSkipped(k)
    /\ LinesOf(k) = <<>>

\* C6: find_ref ends with a result or with the not-found error and no other
\* one; an unreadable file before the first match does not keep that match
\* from being returned; with no match at all the call fails with not-found.
C6_UnreadableSkipped ==
    (Done /\ op = "find_ref") =>
        /\ result.kind = "raise" => result = Raise("DoorstopError", ref)
        /\ \A k \in Positions : \A j \in (k + 1)..Len(paths) :
               (/\ Unreadable(k)
                /\ IsMatch(j)
                /\ \A m \in 1..(j - 1) : ~IsMatch(m)) =>
                   /\ result.kind = "return"
                   /\ result.relpath = paths[j].relpath
        /\ (\A k \in Positions : ~IsMatch(k)) =>
               result = Raise("DoorstopError", ref)

\* getlines failed on the first entry and the keyword was found in the
\* second one.
C6_Witness ==
    /\ Done /\ op = "find_ref"
    /\ Len(paths) = 2
    /\ Unreadable(1) /\ fs[paths[1].path].exc # ""
    /\ paths[1].path \in fetched
    /\ result.kind = "return" /\ result.relpath = paths[2].relpath
    /\ result.line # <<>>

(***************************************************************************)
(* C7                                                                      *)
(***************************************************************************)
\* C7: a call fails exactly when the for loop ran past the last entry, only
\* with DoorstopError, built from ref (find_ref) or ref_path
\* (find_file_reference).
C7_OnlyNotFound ==
    /\ (result.kind = "raise") <=> (Done /\ i > Len(paths))
    /\ result.kind = "raise" =>
           (result.exc = "DoorstopError" /\ result.arg = ref)
    /\ Done => result.kind \in {"return", "raise"}

\* find_file_reference failed after scanning the referenced file for a
\* keyword, with a reference path that differs from the joined path.
C7_Witness ==
    /\ Done /\ op = "find_file_reference"
    /\ keyword # <<>> /\ keyword[1] # ref
    /\ Join(root, ref) # ref
    /\ fetched # {}
    /\ result.kind = "raise"

(***************************************************************************)
(* C8                                                                      *)
(***************************************************************************)
\* C8 as stated: without a keyword find_file_reference fetches no lines,
\* returns (relative path, None) for a tracked entry at join(root, ref_path)
\* and returns nothing else.
C8_PathConfirmed ==
    (op = "find_file_reference" /\ keyword = <<>>) =>
        /\ fetched = {}
        /\ Done =>
            /\ \A k \in Positions :
                   paths[k].path = Join(root, ref) =>
                       result = Return(paths[k].relpath, <<>>)
            /\ result.kind = "return" =>
                   paths[PositionOf(result.relpath)].path = Join(root, ref)

\* C8 amended: the same for a tracked entry at join(root, ref_path) that is
\* not the item's own file; the loop stops at that entry.
C8_PathConfirmedElsewhere ==
    (op = "find_file_reference" /\ keyword = <<>>) =>
        /\ fetched = {}
        /\ Done =>
            /\ \A k \in Positions :
                   (paths[k].path = Join(root, ref) /\ ~IsOwn(k)) =>
                       (result = Return(paths[k].relpath, <<>>) /\ i = k)
            /\ result.kind = "return" =>
                   paths[PositionOf(result.relpath)].path = Join(root, ref)

\* The referenced file was the second entry and was returned unread.
C8_Witness ==
    /\ Done /\ op = "find_file_reference" /\ keyword = <<>>
    /\ Len(paths) = 2
    /\ paths[2].path = Join(root, ref)
    /\ result = Return(paths[2].relpath, <<>>)

(***************************************************************************)
(* C9                                                                      *)
(***************************************************************************)
\* The content-scan step of find_ref on entry k alone, for text: the line
\* number it returns, 0 when it goes on to the next entry.
ContentScan(text, k) ==
    IF IsOwn(k) THEN 0
    ELSE IF ExtSkipped(k) THEN 0
    ELSE IF \E n \in 1..Len(LinesOf(k)) : FirstTokenLine(text, k, n)
         THEN CHOOSE n \in 1..Len(LinesOf(k)) : FirstTokenLine(text, k, n)
         ELSE 0

\* The same without the check of the extension.
ContentScanAnyExt(text, k) ==
    IF IsOwn(k) THEN 0
    ELSE IF \E n \in 1..Len(LinesOf(k)) : FirstTokenLine(text, k, n)
         THEN CHOOSE n \in 1..Len(LinesOf(k)) : FirstTokenLine(text, k, n)
         ELSE 0

C10_FirstMatchReturned ==
    (Done /\ op = "find_ref" /\ result.kind = "return") =>
        LET k == PositionOf(result.relpath)
        IN  /\ \E p \in Positions : paths[p].relpath = result.relpath
            /\ IsMatch(k)
            /\ \A m \in 1..(k - 1) : ~IsMatch(m)
            /\ result.line = <<>> => paths[k].filename = ref
            /\ result.line # <<>> =>
                   (~ExtSkipped(k) /\ FirstTokenLine(ref, k, result.line[1]))

\* The first entry was returned on its first matching line although a later
\* line and the second entry match too.
C10_Witness ==
    /\ Done /\ op = "find_ref"
    /\ Len(paths) = 2
    /\ result = Return(paths[1].relpath, <<1>>)
    /\ Len(LinesOf(1)) = 2 /\ TokenOnLine(ref, 1, 2)
    /\ IsMatch(2)

====
